---- MODULE Spec2Model ----
(***************************************************************************)
(* git-loc-tracker (src/src/main.rs): the reconciliation loop of           *)
(* watch_repositories and the statistics of get_repo_changes.              *)
(*                                                                         *)
(* A repository on disk is a record of what the git2 calls made by         *)
(* get_repo_changes return for it: whether it opens, its status listing,   *)
(* the working-tree-vs-index diff stat, and the items its history walk     *)
(* yields from the branch tip.  The loop state is the program counter of   *)
(* watch_repositories, the HashMap repo_stats, the rows of loc_changes,    *)
(* and the two output streams.                                             *)
(*                                                                         *)
(* One iteration of `for path in &paths` is one step: repositories change  *)
(* and time passes between iterations and between cycles, not inside one   *)
(* call of get_repo_changes.  Counters are i32 (AddI32, AsI32); the        *)
(* repositories of Spec, SpecRepo and SpecLive hold diff stats far from    *)
(* i32::MAX, those of SpecWide reach it.  SpecLive is the loop with weak   *)
(* fairness of the steps of its one thread.                                *)
(***************************************************************************)
EXTENDS Integers, Sequences, FiniteSets, TLC

\* ------------------------------------------------------------------ bounds
MaxPaths == 2
MaxCycles == 2
MaxFsChanges == 1
MaxTicks == 1
MaxCommits == 3
MaxStatuses == 2
MaxRecvErrs == 1
MaxWideCommits == 2

\* --------------------------------------------------------------- constants
I32Max == 2147483647
I32Min == (-I32Max) - 1
SecsPerDay == 86400
DebounceSecs == 300

\* ---------------------------------------------------------- i32 arithmetic
\* `x as i32` of an unsigned count: values above i32::MAX wrap to negatives.
AsI32(n) == IF n <= I32Max THEN n ELSE ((n - I32Max) - 1) + I32Min

\* `a + b` / `a += b` on i32, two's complement (no intermediate leaves 32 bits).
AddI32(a, b) ==
  IF a >= 0 /\ b > I32Max - a THEN ((a + I32Min) + b) + I32Min
  ELSE IF a < 0 /\ b < I32Min - a THEN ((a - I32Min) + b) - I32Min
  ELSE a + b

\* a + b does not fit an i32: a build with overflow checks panics at such an
\* addition, a build without them wraps as AddI32 does.
AddOverflows(a, b) ==
  \/ b > 0 /\ a > I32Max - b
  \/ b < 0 /\ a < I32Min - b

\* ------------------------------------------------------------------- types
\* RepoStats { committed_additions, committed_deletions, pending_additions,
\*             pending_deletions }
RepoStats(ca, cd, pa, pd) ==
  [committed_additions |-> ca, committed_deletions |-> cd,
   pending_additions |-> pa, pending_deletions |-> pd]

\* Result<RepoStats, git2::Error>
Ok(stats) == [ok |-> TRUE, stats |-> stats]
Err == [ok |-> FALSE, stats |-> RepoStats(0, 0, 0, 0)]

\* How the loop `for oid in revwalk` ends: it runs out or breaks with the
\* committed counters acc (WalkDone), or a `?` leaves get_repo_changes (WalkErr).
WalkDone(acc) == [ok |-> TRUE, stats |-> acc]
WalkErr == [ok |-> FALSE, stats |-> <<0, 0>>]

\* LocChange { repo_name, timestamp, author, additions, deletions, is_committed }
\* (author is Option<String>: a sequence of length at most one)
LocChange(name, ts, auth, adds, dels, committed) ==
  [repo_name |-> name, timestamp |-> ts, author |-> auth,
   additions |-> adds, deletions |-> dels, is_committed |-> committed]

\* ------------------------------------------------------------ environment
\* git2::Time of a commit: seconds since the epoch; in_range is FALSE for the
\* i64 values chrono's DateTime::from_timestamp rejects.
GitTime(secs) == [in_range |-> TRUE, secs |-> secs]
TimeOutOfRange == [in_range |-> FALSE, secs |-> 0]

\* Signature::name(): Some(name), or None when the bytes are not UTF-8.
SomeName(s) == <<s>>
NoName == <<>>

\* One item of the history walk.  fail names the first git2 call that fails
\* for it: "oid" (the revwalk iterator yields Err), "find" (find_commit),
\* "parent_tree", "tree", "diff" (diff_tree_to_tree), "stats" (diff.stats),
\* or "none".  parent is "ok", "none" (a root commit) or "err" (unreadable).
Commit(time, name, parent, fail, ins, del) ==
  [time |-> time, author_name |-> name, parent |-> parent, fail |-> fail,
   insertions |-> ins, deletions |-> del]

\* One entry of repo.statuses(): its status flags and whether its path is UTF-8.
StatusEntry(st, utf8) == [status |-> st, path_utf8 |-> utf8]

\* A repository as the git2 calls see it.
\*   open_ok      Repository::open(path) is Ok
\*   statuses_ok  repo.statuses(..) is Ok
\*   statuses     its entries
\*   workdiff     "ok", "diff_err" (diff_index_to_workdir fails) or "stats_err"
\*   insertions, deletions   the whole-repository working-tree-vs-index stat
\*   revwalk      "ok", "revwalk_err" (repo.revwalk fails) or "head_err" (push_head)
\*   walk         what the revwalk yields, tip first
Repo(open_ok, statuses_ok, statuses, workdiff, ins, del, revwalk, walk) ==
  [open_ok |-> open_ok, statuses_ok |-> statuses_ok, statuses |-> statuses,
   workdiff |-> workdiff, insertions |-> ins, deletions |-> del,
   revwalk |-> revwalk, walk |-> walk]

\* ------------------------------------------------------ is_commit_from_today
\* dt.with_timezone(&Local).date_naive(): the local calendar day of an instant,
\* as a day number; tz is the local offset from UTC in seconds.
LocalDate(secs, tz) == (secs + tz) \div SecsPerDay

\* Faulty variant of is_commit_from_today: the UTC dates are compared
\* (dt.date_naive() without with_timezone(&Local)).
is_commit_from_today_utc(commit_time, now, tz) ==
  IF commit_time.in_range
  THEN commit_time.secs \div SecsPerDay = now \div SecsPerDay
  ELSE FALSE

\* Lines 104-112: the commit's local date is today's; false when the time is
\* out of chrono's range.
is_commit_from_today(commit_time, now, tz) ==
  IF commit_time.in_range
  THEN LocalDate(commit_time.secs, tz) = LocalDate(now, tz)
  ELSE FALSE

\* -------------------------------------------------------- count_file_changes
count_file_changes(repo) ==
  IF repo.workdiff = "ok"
  THEN <<AsI32(repo.insertions), AsI32(repo.deletions)>>
  ELSE <<0, 0>>

\* --------------------------------------------- get_repo_changes: pending part
\* Faulty variant of pending_changes: the whole-repository diff stat is counted
\* once if anything is non-current.
RECURSIVE pending_changes_once(_, _, _)
pending_changes_once(repo, i, acc) ==
  IF i > Len(repo.statuses) THEN acc
  ELSE IF repo.statuses[i].status # "CURRENT" /\ repo.statuses[i].path_utf8
       THEN count_file_changes(repo)
       ELSE pending_changes_once(repo, i + 1, acc)

\* The loop over statuses.iter() from entry i on; acc = <<pending_additions,
\* pending_deletions>> so far.
RECURSIVE pending_changes(_, _, _)
pending_changes(repo, i, acc) ==
  IF i > Len(repo.statuses) THEN acc
  ELSE IF repo.statuses[i].status # "CURRENT" /\ repo.statuses[i].path_utf8
       THEN LET c == count_file_changes(repo)
            IN pending_changes(repo, i + 1,
                               <<AddI32(acc[1], c[1]), AddI32(acc[2], c[2])>>)
       ELSE pending_changes(repo, i + 1, acc)

\* ------------------------------------------- get_repo_changes: committed part
\* commit_author.name().unwrap_or_default()
author_name(commit) ==
  IF commit.author_name = NoName THEN "" ELSE commit.author_name[1]

\* Faulty variant of walk_commits: `continue` instead of `break` at a commit
\* that is not from today.
RECURSIVE walk_commits_skip_old(_, _, _, _, _, _)
walk_commits_skip_old(walk, i, author, now, tz, acc) ==
  IF i > Len(walk) THEN WalkDone(acc)
  ELSE LET c == walk[i] IN
    IF c.fail = "oid" \/ c.fail = "find" THEN WalkErr
    ELSE IF ~is_commit_from_today(c.time, now, tz)
      THEN walk_commits_skip_old(walk, i + 1, author, now, tz, acc)
    ELSE IF author_name(c) = author /\ c.parent = "ok"
      THEN IF c.fail \in {"parent_tree", "tree", "diff", "stats"} THEN WalkErr
           ELSE walk_commits_skip_old(walk, i + 1, author, now, tz,
                  <<AddI32(acc[1], AsI32(c.insertions)),
                    AddI32(acc[2], AsI32(c.deletions))>>)
    ELSE walk_commits_skip_old(walk, i + 1, author, now, tz, acc)

\* Faulty variant of walk_commits: an unreadable parent is propagated with `?`
\* like the other steps.
RECURSIVE walk_commits_parent_fatal(_, _, _, _, _, _)
walk_commits_parent_fatal(walk, i, author, now, tz, acc) ==
  IF i > Len(walk) THEN WalkDone(acc)
  ELSE LET c == walk[i] IN
    IF c.fail = "oid" \/ c.fail = "find" THEN WalkErr
    ELSE IF ~is_commit_from_today(c.time, now, tz) THEN WalkDone(acc)
    ELSE IF author_name(c) = author /\ c.parent = "err" THEN WalkErr
    ELSE IF author_name(c) = author /\ c.parent = "ok"
      THEN IF c.fail \in {"parent_tree", "tree", "diff", "stats"} THEN WalkErr
           ELSE walk_commits_parent_fatal(walk, i + 1, author, now, tz,
                  <<AddI32(acc[1], AsI32(c.insertions)),
                    AddI32(acc[2], AsI32(c.deletions))>>)
    ELSE walk_commits_parent_fatal(walk, i + 1, author, now, tz, acc)

\* Faulty variant of walk_commits: a commit without a parent is diffed against
\* the empty tree and counted.
RECURSIVE walk_commits_root_counts(_, _, _, _, _, _)
walk_commits_root_counts(walk, i, author, now, tz, acc) ==
  IF i > Len(walk) THEN WalkDone(acc)
  ELSE LET c == walk[i] IN
    IF c.fail = "oid" \/ c.fail = "find" THEN WalkErr
    ELSE IF ~is_commit_from_today(c.time, now, tz) THEN WalkDone(acc)
    ELSE IF author_name(c) = author /\ c.parent \in {"ok", "none"}
      THEN IF c.parent = "ok" /\ c.fail \in {"parent_tree", "tree", "diff", "stats"}
           THEN WalkErr
           ELSE walk_commits_root_counts(walk, i + 1, author, now, tz,
                  <<AddI32(acc[1], AsI32(c.insertions)),
                    AddI32(acc[2], AsI32(c.deletions))>>)
    ELSE walk_commits_root_counts(walk, i + 1, author, now, tz, acc)

\* Faulty variant of walk_commits: the author of the commit is not compared.
RECURSIVE walk_commits_any_author(_, _, _, _, _, _)
walk_commits_any_author(walk, i, author, now, tz, acc) ==
  IF i > Len(walk) THEN WalkDone(acc)
  ELSE LET c == walk[i] IN
    IF c.fail = "oid" \/ c.fail = "find" THEN WalkErr
    ELSE IF ~is_commit_from_today(c.time, now, tz) THEN WalkDone(acc)
    ELSE IF c.parent = "ok"
      THEN IF c.fail \in {"parent_tree", "tree", "diff", "stats"} THEN WalkErr
           ELSE walk_commits_any_author(walk, i + 1, author, now, tz,
                  <<AddI32(acc[1], AsI32(c.insertions)),
                    AddI32(acc[2], AsI32(c.deletions))>>)
    ELSE walk_commits_any_author(walk, i + 1, author, now, tz, acc)

\* The loop `for oid in revwalk` from item i on; acc = <<committed_additions,
\* committed_deletions>> so far.  WalkErr is a `?` that returns from
\* get_repo_changes; WalkDone(acc) is the loop ending (exhausted, or `break`).
RECURSIVE walk_commits(_, _, _, _, _, _)
walk_commits(walk, i, author, now, tz, acc) ==
  IF i > Len(walk) THEN WalkDone(acc)
  ELSE LET c == walk[i] IN
    IF c.fail = "oid" \/ c.fail = "find" THEN WalkErr
    ELSE IF ~is_commit_from_today(c.time, now, tz) THEN WalkDone(acc)
    ELSE IF author_name(c) = author /\ c.parent = "ok"
      THEN IF c.fail \in {"parent_tree", "tree", "diff", "stats"} THEN WalkErr
           ELSE walk_commits(walk, i + 1, author, now, tz,
                  <<AddI32(acc[1], AsI32(c.insertions)),
                    AddI32(acc[2], AsI32(c.deletions))>>)
    ELSE walk_commits(walk, i + 1, author, now, tz, acc)

\* Whether an addition of the loop over statuses.iter() overflows (lines
\* 164-165), from entry i on.
RECURSIVE pending_overflows(_, _, _)
pending_overflows(repo, i, acc) ==
  IF i > Len(repo.statuses) THEN FALSE
  ELSE IF repo.statuses[i].status # "CURRENT" /\ repo.statuses[i].path_utf8
       THEN LET c == count_file_changes(repo)
            IN \/ AddOverflows(acc[1], c[1]) \/ AddOverflows(acc[2], c[2])
               \/ pending_overflows(repo, i + 1,
                                    <<AddI32(acc[1], c[1]), AddI32(acc[2], c[2])>>)
       ELSE pending_overflows(repo, i + 1, acc)

\* Whether an addition of the walk overflows (lines 195-196) before the walk
\* ends, from item i on.
RECURSIVE walk_overflows(_, _, _, _, _, _)
walk_overflows(walk, i, author, now, tz, acc) ==
  IF i > Len(walk) THEN FALSE
  ELSE LET c == walk[i] IN
    IF c.fail = "oid" \/ c.fail = "find" THEN FALSE
    ELSE IF ~is_commit_from_today(c.time, now, tz) THEN FALSE
    ELSE IF author_name(c) = author /\ c.parent = "ok"
      THEN IF c.fail \in {"parent_tree", "tree", "diff", "stats"} THEN FALSE
           ELSE \/ AddOverflows(acc[1], AsI32(c.insertions))
                \/ AddOverflows(acc[2], AsI32(c.deletions))
                \/ walk_overflows(walk, i + 1, author, now, tz,
                     <<AddI32(acc[1], AsI32(c.insertions)),
                       AddI32(acc[2], AsI32(c.deletions))>>)
    ELSE walk_overflows(walk, i + 1, author, now, tz, acc)

\* ------------------------------------------------------------ get_repo_changes
get_repo_changes(repo, author, now, tz) ==
  IF ~repo.statuses_ok THEN Err
  ELSE LET pending == pending_changes(repo, 1, <<0, 0>>) IN
    IF repo.revwalk # "ok" THEN Err
    ELSE LET committed == walk_commits(repo.walk, 1, author, now, tz, <<0, 0>>) IN
      IF ~committed.ok THEN Err
      ELSE Ok(RepoStats(committed.stats[1], committed.stats[2],
                        pending[1], pending[2]))

\* --------------------------------------------------------- watch_repositories
\* path.file_name().unwrap_or_default(): the final segment of the path; none
\* (the empty string) for the root and for a path ending in "..".
file_name(path) ==
  IF path = <<>> THEN ""
  ELSE IF path[Len(path)] = ".." THEN ""
  ELSE path[Len(path)]

\* Faulty variant of make_change: only the committed counters are recorded.
make_change_committed_only(repo_name, now, author, stats) ==
  LocChange(repo_name, now, <<author>>,
            stats.committed_additions, stats.committed_deletions, FALSE)

\* The LocChange built from the stats of one iteration (lines 243-250).
make_change(repo_name, now, author, stats) ==
  LocChange(repo_name, now, <<author>>,
            AddI32(stats.committed_additions, stats.pending_additions),
            AddI32(stats.committed_deletions, stats.pending_deletions),
            FALSE)

\* Whether one iteration of `for path in &paths` meets an overflowing addition:
\* in get_repo_changes or in the sums of the LocChange (lines 247-248).
scan_overflows(repo, author, now, tz) ==
  /\ repo.open_ok /\ repo.statuses_ok
  /\ \/ pending_overflows(repo, 1, <<0, 0>>)
     \/ /\ repo.revwalk = "ok"
        /\ \/ walk_overflows(repo.walk, 1, author, now, tz, <<0, 0>>)
           \/ LET res == get_repo_changes(repo, author, now, tz)
              IN /\ res.ok
                 /\ \/ AddOverflows(res.stats.committed_additions,
                                    res.stats.pending_additions)
                    \/ AddOverflows(res.stats.committed_deletions,
                                    res.stats.pending_deletions)

\* Faulty variant of insert: the new counters are added to the entry already there.
insert_accumulate(table, key, stats) ==
  [k \in DOMAIN table \cup {key} |->
     IF k # key THEN table[k]
     ELSE IF key \in DOMAIN table
          THEN RepoStats(
                 AddI32(table[key].committed_additions, stats.committed_additions),
                 AddI32(table[key].committed_deletions, stats.committed_deletions),
                 AddI32(table[key].pending_additions, stats.pending_additions),
                 AddI32(table[key].pending_deletions, stats.pending_deletions))
          ELSE stats]

\* HashMap::insert on repo_stats: the entry of key is replaced.
insert(table, key, stats) ==
  [k \in DOMAIN table \cup {key} |-> IF k = key THEN stats ELSE table[k]]

\* Faulty variant of table_after: the entry of a repository that fails is evicted.
table_after_evict(table, repo_name, res, store_ok) ==
  IF res # <<>> /\ res[1].ok THEN insert(table, repo_name, res[1].stats)
  ELSE [k \in DOMAIN table \ {repo_name} |-> table[k]]

\* Faulty variant of table_after: the table is updated only once the row is stored.
table_after_store_first(table, repo_name, res, store_ok) ==
  IF res # <<>> /\ res[1].ok /\ store_ok
  THEN insert(table, repo_name, res[1].stats)
  ELSE table

\* repo_stats after one iteration of `for path in &paths`: res is <<>> when
\* Repository::open failed, else <<the Result of get_repo_changes>>; store_ok
\* is the answer of store_change.
table_after(table, repo_name, res, store_ok) ==
  IF res # <<>> /\ res[1].ok THEN insert(table, repo_name, res[1].stats)
  ELSE table

\* Faulty variant of next_path: a failing path ends the loop over the paths.
next_path_abort(i, n, failed) == IF failed THEN n + 1 ELSE i + 1

\* The index of the next path after one iteration of `for path in &paths`
\* over n paths; failed is TRUE when the path did not open or its stats failed.
next_path(i, n, failed) == i + 1

\* Faulty variant of total_of: the total is assigned, not accumulated, so it
\* ends as the figure of one entry.
RECURSIVE total_of_assigned(_, _, _)
total_of_assigned(table, keys, which) ==
  IF keys = {} THEN 0
  ELSE LET k == CHOOSE x \in keys : TRUE
       IN IF which = "committed"
          THEN AddI32(table[k].committed_additions, table[k].committed_deletions)
          ELSE AddI32(table[k].pending_additions, table[k].pending_deletions)

\* The aggregate printed after the loop over the paths: one line per entry of
\* repo_stats (in the map's arbitrary order) and the grand totals.
RECURSIVE total_of(_, _, _)
total_of(table, keys, which) ==
  IF keys = {} THEN 0
  ELSE LET k == CHOOSE x \in keys : TRUE
           loc == IF which = "committed"
                  THEN AddI32(table[k].committed_additions,
                              table[k].committed_deletions)
                  ELSE AddI32(table[k].pending_additions,
                              table[k].pending_deletions)
       IN AddI32(total_of(table, keys \ {k}, which), loc)

aggregate(table) ==
  [lines |-> [k \in DOMAIN table |->
                <<AddI32(table[k].committed_additions, table[k].committed_deletions),
                  AddI32(table[k].pending_additions, table[k].pending_deletions)>>],
   total_committed |-> total_of(table, DOMAIN table, "committed"),
   total_pending |-> total_of(table, DOMAIN table, "pending")]

\* Whether an addition of the print loop overflows (lines 265-273).
RECURSIVE total_overflows(_, _, _)
total_overflows(table, keys, which) ==
  IF keys = {} THEN FALSE
  ELSE LET k == CHOOSE x \in keys : TRUE
           a == IF which = "committed" THEN table[k].committed_additions
                ELSE table[k].pending_additions
           b == IF which = "committed" THEN table[k].committed_deletions
                ELSE table[k].pending_deletions
       IN \/ AddOverflows(a, b)
          \/ total_overflows(table, keys \ {k}, which)
          \/ AddOverflows(total_of(table, keys \ {k}, which), AddI32(a, b))

aggregate_overflows(table) ==
  \/ total_overflows(table, DOMAIN table, "committed")
  \/ total_overflows(table, DOMAIN table, "pending")

\* ------------------------------------------------------------------- inputs
SeqsUpTo(S, n) == UNION {[1..k -> S] : k \in 0..n}

\* Tracked paths, as their segments: two of them share the final segment.
\* Every list of up to MaxPaths of them is, up to renaming, one that starts
\* with /w/a.
PathSamples == {<<"w", "a">>, <<"w", "b">>, <<"x", "a">>}
PathLists == {l \in SeqsUpTo(PathSamples, MaxPaths) : l # <<>> /\ l[1] = <<"w", "a">>}

AuthorSamples == {"Jane Doe"}
\* --author "" is accepted by the command line as well.
RepoAuthorSamples == AuthorSamples \cup {""}

\* Local offsets from UTC, in seconds.
TzSamples == {0, 3600}

\* The clock starts five minutes before midnight UTC of day 1 and advances
\* in steps of two debounce periods.
ClockStart == 2 * SecsPerDay - DebounceSecs
ClockStep == 2 * DebounceSecs

\* Authoring times: late on day 1 UTC (day 2 at +01:00), early on day 1, day 0.
T_late == GitTime(2 * SecsPerDay - 500)
T_early == GitTime(SecsPerDay + 13600)
T_old == GitTime(50000)

CommitSamples ==
  { Commit(T_late, SomeName("Jane Doe"), "ok", "none", 5, 1),
    Commit(T_early, SomeName("Jane Doe"), "ok", "none", 2, 3),
    Commit(T_old, SomeName("Jane Doe"), "ok", "none", 7, 7),
    Commit(T_late, SomeName("jane doe"), "ok", "none", 4, 4),
    Commit(T_late, SomeName("Jane"), "ok", "none", 3, 3),
    Commit(T_late, NoName, "ok", "none", 6, 6),
    Commit(T_late, SomeName("Jane Doe"), "none", "none", 9, 9),
    Commit(T_late, SomeName("Jane Doe"), "err", "none", 9, 9),
    Commit(T_late, SomeName("Jane Doe"), "ok", "parent_tree", 8, 8),
    Commit(T_late, SomeName("Jane Doe"), "ok", "tree", 8, 8),
    Commit(T_late, SomeName("Jane Doe"), "ok", "diff", 8, 8),
    Commit(T_late, SomeName("Jane Doe"), "ok", "stats", 8, 8),
    Commit(T_late, SomeName("Jane Doe"), "ok", "oid", 0, 0),
    Commit(T_late, SomeName("Jane Doe"), "ok", "find", 0, 0),
    Commit(TimeOutOfRange, SomeName("Jane Doe"), "ok", "none", 1, 1) }

StatusSamples ==
  { StatusEntry("CURRENT", TRUE), StatusEntry("WT_NEW", TRUE),
    StatusEntry("WT_MODIFIED", FALSE) }

\* Repositories for the properties of get_repo_changes: every status listing with
\* two histories, every history with one status listing, and the failures
\* of the calls made before the loops.
RichRepos ==
  { Repo(TRUE, TRUE, sts, wd, 10, 2, "ok", w) :
      sts \in SeqsUpTo(StatusSamples, MaxStatuses),
      wd \in {"ok", "diff_err", "stats_err"},
      w \in {<<>>, <<Commit(T_late, SomeName("Jane Doe"), "ok", "none", 5, 1)>>} }
  \cup
  { Repo(TRUE, TRUE, sts, "ok", 10, 2, "ok", w) :
      sts \in {<<StatusEntry("WT_NEW", TRUE), StatusEntry("WT_NEW", TRUE)>>},
      w \in SeqsUpTo(CommitSamples, MaxCommits) }
  \cup
  { Repo(o, s, <<StatusEntry("WT_NEW", TRUE)>>, "ok", 10, 2, r,
         <<Commit(T_late, SomeName("Jane Doe"), "ok", "none", 5, 1)>>) :
      o \in BOOLEAN, s \in BOOLEAN, r \in {"ok", "revwalk_err", "head_err"} }

\* Repositories for the properties of the loop.
Unopenable == Repo(FALSE, TRUE, <<>>, "ok", 0, 0, "ok", <<>>)
Unborn == Repo(TRUE, TRUE, <<StatusEntry("WT_NEW", TRUE)>>, "ok", 0, 0, "head_err", <<>>)
Clean == Repo(TRUE, TRUE, <<>>, "ok", 0, 0, "ok",
              <<Commit(T_old, SomeName("Jane Doe"), "ok", "none", 7, 7)>>)
Busy == Repo(TRUE, TRUE,
             <<StatusEntry("WT_NEW", TRUE), StatusEntry("WT_NEW", TRUE)>>,
             "ok", 10, 2, "ok",
             <<Commit(T_late, SomeName("Jane Doe"), "ok", "none", 5, 1),
               Commit(T_old, SomeName("Jane Doe"), "ok", "none", 7, 7)>>)
RepoSamples == {Unopenable, Unborn, Clean, Busy}

\* -------------------------------------------------------------------- state
VARIABLES
  paths,          \* opt.paths
  author,         \* opt.author
  tz,             \* the local offset from UTC
  repos,          \* the repository found at each tracked path
  now,            \* the clock, seconds since the epoch
  chan,           \* notifications queued in rx
  connected,      \* the watcher still holds the sending half tx
  pc,             \* "setup", "idle" (in rx.recv), "reconciling", "exited", "panicked"
  idx,            \* the position of `for path in &paths`
  repo_stats,     \* the HashMap<String, RepoStats>
  sink,           \* the rows of loc_changes
  stderr,         \* lines written by eprintln!
  stdout,         \* the aggregates printed
  results,        \* this cycle, per path: <<>> or <<the Result of get_repo_changes>>
  submitted,      \* this cycle, per path: <<>> or <<the LocChange given to store_change>>
  cycle,          \* notifications received so far
  attempts,       \* this cycle, per path: what the iteration read
  prev_attempts,  \* the same of the cycle before
  prev_submitted,
  last_change,    \* the cycle during or after which a repository last changed
  fs_changes,     \* repository changes so far
  ticks           \* clock steps so far

vars == <<paths, author, tz, repos, now, chan, connected, pc, idx, repo_stats, sink, stderr,
          stdout, results, submitted, cycle, attempts, prev_attempts,
          prev_submitted, last_change, fs_changes, ticks>>

inputs == <<paths, author, tz>>
history == <<prev_attempts, prev_submitted>>

Tracked == {paths[i] : i \in 1..Len(paths)}

InitLoop ==
  /\ connected = TRUE
  /\ idx = 1
  /\ repo_stats = <<>>
  /\ sink = <<>>
  /\ stderr = <<>>
  /\ stdout = <<>>
  /\ results = <<>>
  /\ submitted = <<>>
  /\ cycle = 0
  /\ attempts = <<>>
  /\ prev_attempts = <<>>
  /\ prev_submitted = <<>>
  /\ last_change = 0
  /\ fs_changes = 0
  /\ ticks = 0

\* The process starts: nothing is connected or watched yet.
Init ==
  /\ paths \in PathLists
  /\ author \in AuthorSamples
  /\ tz \in TzSamples
  /\ repos \in [PathSamples -> RepoSamples]
  /\ \A p \in PathSamples \ Tracked : repos[p] = Unopenable
  /\ now = ClockStart
  /\ chan = 0
  /\ pc = "setup"
  /\ InitLoop

\* ------------------------------------------------------------------ actions
\* Lines 215-229: connect, setup_database, watcher, watch each path.  Any of
\* them failing returns the error from watch_repositories and main.
Setup ==
  /\ pc = "setup"
  /\ \E failure \in {"none", "connect", "schema", "watcher", "watch"} :
       pc' = IF failure = "none" THEN "idle" ELSE "exited"
  /\ UNCHANGED <<inputs, connected, repos, now, chan, idx, repo_stats, sink, stderr, stdout,
                 results, submitted, cycle, attempts, history, last_change,
                 fs_changes, ticks>>

\* The watcher sends a debounced event.
Notify ==
  /\ pc \in {"idle", "reconciling"}
  /\ connected
  /\ cycle + chan < MaxCycles
  /\ chan' = chan + 1
  /\ UNCHANGED <<inputs, connected, repos, now, pc, idx, repo_stats, sink, stderr, stdout,
                 results, submitted, cycle, attempts, history, last_change,
                 fs_changes, ticks>>

\* Something changes a tracked repository on disk.
FsChange ==
  /\ pc \in {"idle", "reconciling"}
  /\ fs_changes < MaxFsChanges
  /\ \E p \in Tracked : \E r \in RepoSamples \ {repos[p]} :
       repos' = [repos EXCEPT ![p] = r]
  /\ fs_changes' = fs_changes + 1
  /\ last_change' = cycle
  /\ UNCHANGED <<inputs, connected, now, chan, pc, idx, repo_stats, sink, stderr, stdout,
                 results, submitted, cycle, attempts, history, ticks>>

\* Time passes.
Tick ==
  /\ pc \in {"idle", "reconciling"}
  /\ ticks < MaxTicks
  /\ now' = now + ClockStep
  /\ ticks' = ticks + 1
  /\ UNCHANGED <<inputs, connected, repos, chan, pc, idx, repo_stats, sink, stderr, stdout,
                 results, submitted, cycle, attempts, history, last_change,
                 fs_changes>>

\* The watcher's sending half of the channel goes away (its thread ends).
\* Events already queued stay in rx.
Disconnect ==
  /\ pc \in {"idle", "reconciling"}
  /\ connected
  /\ connected' = FALSE
  /\ UNCHANGED <<inputs, repos, now, chan, pc, idx, repo_stats, sink, stderr,
                 stdout, results, submitted, cycle, attempts, history,
                 last_change, fs_changes, ticks>>

WatchErrors == Cardinality({i \in 1..Len(stderr) : stderr[i] = "Watch error"})

\* Faulty variant of RecvErr: the receive error is returned from
\* watch_repositories.
RecvErrReturns ==
  /\ pc = "idle"
  /\ chan = 0
  /\ ~connected
  /\ WatchErrors < MaxRecvErrs
  /\ stderr' = Append(stderr, "Watch error")
  /\ pc' = "exited"
  /\ UNCHANGED <<inputs, connected, repos, now, chan, idx, repo_stats, sink,
                 stdout, results, submitted, cycle, attempts, history,
                 last_change, fs_changes, ticks>>

\* Lines 232, 281: rx.recv() returns Err (the queue is empty and no sender is
\* left); the error is logged and the loop calls rx.recv() again.
RecvErr ==
  /\ pc = "idle"
  /\ chan = 0
  /\ ~connected
  /\ WatchErrors < MaxRecvErrs
  /\ stderr' = Append(stderr, "Watch error")
  /\ UNCHANGED <<inputs, connected, repos, now, chan, pc, idx, repo_stats, sink,
                 stdout, results, submitted, cycle, attempts, history,
                 last_change, fs_changes, ticks>>

\* Faulty variant of Recv: the next notification is taken while the paths of
\* the cycle before are still being scanned.
RecvOverlapping ==
  /\ pc \in {"idle", "reconciling"}
  /\ chan > 0
  /\ chan' = chan - 1
  /\ pc' = "reconciling"
  /\ idx' = 1
  /\ cycle' = cycle + 1
  /\ results' = <<>>
  /\ submitted' = <<>>
  /\ attempts' = <<>>
  /\ prev_attempts' = attempts
  /\ prev_submitted' = submitted
  /\ UNCHANGED <<inputs, connected, repos, now, repo_stats, sink, stderr, stdout,
                 last_change, fs_changes, ticks>>

\* Faulty variant of Recv: the events queued behind the one received are
\* drained with it.
RecvDrains ==
  /\ pc = "idle"
  /\ chan > 0
  /\ chan' = 0
  /\ pc' = "reconciling"
  /\ idx' = 1
  /\ cycle' = cycle + 1
  /\ results' = <<>>
  /\ submitted' = <<>>
  /\ attempts' = <<>>
  /\ prev_attempts' = attempts
  /\ prev_submitted' = submitted
  /\ UNCHANGED <<inputs, connected, repos, now, repo_stats, sink, stderr, stdout,
                 last_change, fs_changes, ticks>>

\* Line 232-233: rx.recv() returns Ok(_); the loop over the paths starts.
Recv ==
  /\ pc = "idle"
  /\ chan > 0
  /\ chan' = chan - 1
  /\ pc' = "reconciling"
  /\ idx' = 1
  /\ cycle' = cycle + 1
  /\ results' = <<>>
  /\ submitted' = <<>>
  /\ attempts' = <<>>
  /\ prev_attempts' = attempts
  /\ prev_submitted' = submitted
  /\ UNCHANGED <<inputs, connected, repos, now, repo_stats, sink, stderr, stdout,
                 last_change, fs_changes, ticks>>

\* Lines 235-259: one iteration of `for path in &paths`.
ScanPath ==
  /\ pc = "reconciling"
  /\ idx <= Len(paths)
  /\ \E store_ok \in BOOLEAN :
       LET path == paths[idx]
           repo == repos[path]
           repo_name == file_name(path)
           res == IF repo.open_ok
                  THEN <<get_repo_changes(repo, author, now, tz)>>
                  ELSE <<>>
           good == res # <<>> /\ res[1].ok
           change == make_change(repo_name, now, author, res[1].stats)
       IN /\ repo_stats' = table_after(repo_stats, repo_name, res, store_ok)
          /\ results' = Append(results, res)
          /\ submitted' = Append(submitted, IF good THEN <<change>> ELSE <<>>)
          /\ sink' = IF good /\ store_ok THEN Append(sink, change) ELSE sink
          /\ stderr' = IF good /\ ~store_ok
                       THEN Append(stderr, "Error storing change")
                       ELSE stderr
          /\ attempts' = Append(attempts,
                                [path |-> path, repo |-> repo, now |-> now,
                                 store_ok |-> good /\ store_ok])
          /\ idx' = next_path(idx, Len(paths), ~good)
  /\ UNCHANGED <<inputs, connected, repos, now, chan, pc, stdout, cycle, history,
                 last_change, fs_changes, ticks>>

\* Faulty variant of PrintAggregate: watch_repositories returns after the
\* first aggregate.
PrintAndReturn ==
  /\ pc = "reconciling"
  /\ idx > Len(paths)
  /\ stdout' = Append(stdout, aggregate(repo_stats))
  /\ pc' = "exited"
  /\ UNCHANGED <<inputs, connected, repos, now, chan, idx, repo_stats, sink, stderr,
                 results, submitted, cycle, attempts, history, last_change,
                 fs_changes, ticks>>

\* Lines 261-279: the aggregate is printed and the loop goes back to rx.recv().
PrintAggregate ==
  /\ pc = "reconciling"
  /\ idx > Len(paths)
  /\ stdout' = Append(stdout, aggregate(repo_stats))
  /\ pc' = "idle"
  /\ UNCHANGED <<inputs, connected, repos, now, chan, idx, repo_stats, sink, stderr,
                 results, submitted, cycle, attempts, history, last_change,
                 fs_changes, ticks>>

\* No addition of the iterations of this cycle has overflowed.
NoOverflowYet ==
  \A i \in 1..Len(attempts) :
    ~scan_overflows(attempts[i].repo, author, attempts[i].now, tz)

\* Whether the build checks for integer overflow is not known before the
\* first addition that overflows: in a build that does (rustc's debug
\* profile), that addition panics in the thread of main and the process ends;
\* in a build that does not, it wraps, which is what ScanPath and
\* PrintAggregate compute.  An iteration meets the first overflowing addition:
ScanPanics ==
  /\ pc = "reconciling"
  /\ idx <= Len(paths)
  /\ NoOverflowYet /\ scan_overflows(repos[paths[idx]], author, now, tz)
  /\ pc' = "panicked"
  /\ stderr' = Append(stderr, "attempt to add with overflow")
  /\ UNCHANGED <<inputs, connected, repos, now, chan, idx, repo_stats, sink,
                 stdout, results, submitted, cycle, attempts, history,
                 last_change, fs_changes, ticks>>

\* The same for an addition of the print loop.
PrintPanics ==
  /\ pc = "reconciling"
  /\ idx > Len(paths)
  /\ NoOverflowYet /\ aggregate_overflows(repo_stats)
  /\ pc' = "panicked"
  /\ stderr' = Append(stderr, "attempt to add with overflow")
  /\ UNCHANGED <<inputs, connected, repos, now, chan, idx, repo_stats, sink,
                 stdout, results, submitted, cycle, attempts, history,
                 last_change, fs_changes, ticks>>

Next ==
  \/ Setup \/ Notify \/ Disconnect \/ FsChange \/ Tick
  \/ Recv \/ RecvErr \/ ScanPath \/ PrintAggregate

Spec == Init /\ [][Next]_vars

\* The loop with the repositories and the clock as they are at the start.
\* The loop is one thread that keeps running: a notification in the queue is
\* taken by the rx.recv() the loop is blocked in, and, every scan and write
\* returning, the iteration over the paths and the print that follows are
\* carried out.
InitLive == Init /\ tz = 0

NextLive ==
  \/ Setup \/ Notify \/ Disconnect
  \/ Recv \/ RecvErr \/ ScanPath \/ PrintAggregate

SpecLive ==
  InitLive /\ [][NextLive]_vars
           /\ WF_vars(Recv) /\ WF_vars(ScanPath) /\ WF_vars(PrintAggregate)

\* get_repo_changes on its own: one tracked repository, any of RichRepos, at
\* either side of midnight, and one notification already queued.
InitRepo ==
  /\ paths \in {<<p>> : p \in {<<"w", "a">>}}
  /\ author \in RepoAuthorSamples
  /\ tz \in TzSamples
  /\ \E r \in RichRepos :
       repos = [p \in PathSamples |-> IF p \in Tracked THEN r ELSE Unopenable]
  /\ now \in {ClockStart, ClockStart + ClockStep}
  /\ chan = 1
  /\ pc = "idle"
  /\ InitLoop

NextRepo == Recv \/ ScanPath \/ PrintAggregate

SpecRepo == InitRepo /\ [][NextRepo]_vars

\* One tracked repository whose diff stats are up to the largest i32, and one
\* notification queued.
Half == (I32Max - 1) \div 2 + 1
WideCounts == {0, 1, Half, I32Max}
WideCommits ==
  { Commit(T_late, SomeName("Jane Doe"), "ok", "none", Half, Half),
    Commit(T_late, SomeName("Jane Doe"), "ok", "none", I32Max, 1) }
WideRepos ==
  { Repo(TRUE, TRUE, sts, "ok", a, d, "ok", w) :
      sts \in SeqsUpTo({StatusEntry("WT_NEW", TRUE)}, MaxStatuses),
      a \in WideCounts, d \in WideCounts,
      w \in SeqsUpTo(WideCommits, MaxWideCommits) }

InitWide ==
  /\ paths = <<<<"w", "a">>>>
  /\ author \in AuthorSamples
  /\ tz = 0
  /\ \E r \in WideRepos :
       repos = [p \in PathSamples |-> IF p \in Tracked THEN r ELSE Unopenable]
  /\ now = ClockStart
  /\ chan = 1
  /\ pc = "idle"
  /\ InitLoop

NextWide == Recv \/ ScanPath \/ ScanPanics \/ PrintAggregate \/ PrintPanics

SpecWide == InitWide /\ [][NextWide]_vars

\* =============================================================== properties
\* What the specification says a scan yields, computed from what the iteration read
\* (attempts) without the loops of get_repo_changes.

\* The commit's local authoring date is today's local date at instant t.
DatedToday(c, t) ==
  c.time.in_range /\ LocalDate(c.time.secs, tz) = LocalDate(t, tz)

\* The commit is by the configured author, name for name.
ByAuthor(c) ==
  \/ c.author_name = <<author>>
  \/ c.author_name = <<>> /\ author = ""

\* A failure that leaves get_repo_changes at walk item c.
Fatal(c, t) ==
  \/ c.fail \in {"oid", "find"}
  \/ /\ DatedToday(c, t) /\ ByAuthor(c) /\ c.parent = "ok"
     /\ c.fail \in {"parent_tree", "tree", "diff", "stats"}

\* The first walk item at which the walk ends, Len(walk) + 1 if it runs out.
WalkEnd(walk, t) ==
  LET ends == {j \in 1..Len(walk) : Fatal(walk[j], t) \/ ~DatedToday(walk[j], t)}
  IN IF ends = {} THEN Len(walk) + 1
     ELSE CHOOSE j \in ends : \A k \in ends : j <= k

RECURSIVE SumDiffs(_, _, _)
SumDiffs(walk, js, field) ==
  IF js = {} THEN 0
  ELSE LET j == CHOOSE x \in js : TRUE
       IN (IF field = "insertions" THEN walk[j].insertions ELSE walk[j].deletions)
          + SumDiffs(walk, js \ {j}, field)

\* The commits before the end of the walk whose first-parent diff counts.
Counted(walk, t) ==
  {j \in 1..(WalkEnd(walk, t) - 1) : ByAuthor(walk[j]) /\ walk[j].parent = "ok"}

NonCurrent(repo) ==
  {i \in 1..Len(repo.statuses) : repo.statuses[i].status # "CURRENT"}

NonCurrentWithPath(repo) ==
  {i \in NonCurrent(repo) : repo.statuses[i].path_utf8}

ExpectedOk(repo, t) ==
  /\ repo.open_ok /\ repo.statuses_ok /\ repo.revwalk = "ok"
  /\ LET e == WalkEnd(repo.walk, t)
     IN e > Len(repo.walk) \/ ~Fatal(repo.walk[e], t)

ExpectedStats(repo, t) ==
  LET n == Cardinality(NonCurrentWithPath(repo))
      a == IF repo.workdiff = "ok" THEN repo.insertions ELSE 0
      d == IF repo.workdiff = "ok" THEN repo.deletions ELSE 0
  IN RepoStats(SumDiffs(repo.walk, Counted(repo.walk, t), "insertions"),
               SumDiffs(repo.walk, Counted(repo.walk, t), "deletions"),
               n * a, n * d)

\* Iteration i of this cycle got an Ok from get_repo_changes.
Good(i) == results[i] # <<>> /\ results[i][1].ok
Stats(i) == results[i][1].stats
CycleOver == pc = "idle" /\ cycle > 0

\* C2 (as claimed): with N non-current status entries and a whole-repository
\* working-tree diff stat (a, d), get_repo_changes returns pending = (N*a, N*d).
C2_AsClaimed ==
  \A i \in 1..Len(results) :
    Good(i) /\ attempts[i].repo.workdiff = "ok" =>
      LET n == Cardinality(NonCurrent(attempts[i].repo))
      IN /\ Stats(i).pending_additions = n * attempts[i].repo.insertions
         /\ Stats(i).pending_deletions = n * attempts[i].repo.deletions

\* C2 (amended): N counts the non-current entries whose path is valid UTF-8;
\* pending = (N*a, N*d), and (0, 0) when N = 0 or the diff cannot be computed,
\* whatever the history.
C2_PendingPerEntryWithPath ==
  \A i \in 1..Len(results) :
    Good(i) =>
      LET n == Cardinality(NonCurrentWithPath(attempts[i].repo))
          diffed == attempts[i].repo.workdiff = "ok"
      IN /\ Stats(i).pending_additions =
              IF diffed THEN n * attempts[i].repo.insertions ELSE 0
         /\ Stats(i).pending_deletions =
              IF diffed THEN n * attempts[i].repo.deletions ELSE 0

\* C2 witness: two non-current entries with a path, diff stat +10/-2, give
\* pending (20, 4); a third state has an entry without a UTF-8 path.
C2_Witness ==
  /\ Len(results) = 1 /\ Good(1)
  /\ Cardinality(NonCurrent(attempts[1].repo)) = 2
  /\ Cardinality(NonCurrentWithPath(attempts[1].repo)) = 1
  /\ attempts[1].repo.workdiff = "ok"
  /\ Stats(1).pending_additions = 10 /\ Stats(1).pending_deletions = 2

CycleRunsThrough ==
  /\ Len(attempts) = Len(results) /\ Len(attempts) = Len(submitted)
  /\ \A i \in 1..Len(attempts) : i <= Len(paths) /\ attempts[i].path = paths[i]
  /\ pc = "reconciling" => Len(attempts) = idx - 1 /\ Len(stdout) = cycle - 1
  /\ CycleOver => Len(attempts) = Len(paths) /\ Len(stdout) = cycle

\* The record expected for iteration i of this cycle.
ExpectedChange(i) ==
  LET st == ExpectedStats(attempts[i].repo, attempts[i].now)
  IN LocChange(file_name(attempts[i].path), attempts[i].now, <<author>>,
               st.committed_additions + st.pending_additions,
               st.committed_deletions + st.pending_deletions, FALSE)

\* The latest iteration of this cycle.
Latest == Len(attempts)
LatestName == file_name(attempts[Latest].path)

\* C1: a path that does not open or whose stats fail does not end the cycle:
\* every path is read at its position, each one that computes gets its entry
\* and its record with the values of its repository, and the aggregate is
\* printed.
C1_FailingPathDoesNotAbortCycle ==
  /\ CycleRunsThrough
  /\ \A i \in 1..Len(attempts) :
       ExpectedOk(attempts[i].repo, attempts[i].now) =>
         /\ Good(i)
         /\ submitted[i] = <<ExpectedChange(i)>>
  /\ (Latest > 0 /\ ExpectedOk(attempts[Latest].repo, attempts[Latest].now)) =>
       /\ LatestName \in DOMAIN repo_stats
       /\ repo_stats[LatestName] =
            ExpectedStats(attempts[Latest].repo, attempts[Latest].now)

\* C1 witness: a finished cycle whose first path did not open and whose
\* second path got its entry and a record with non-zero values.
C1_Witness ==
  /\ CycleOver /\ Len(paths) = 2
  /\ ~attempts[1].repo.open_ok
  /\ Good(2) /\ submitted[2] # <<>> /\ submitted[2][1].additions = 25
  /\ repo_stats[file_name(paths[2])].pending_additions = 20
  /\ Len(stdout) = cycle

\* No repository changed since the cycle before this one began.
NoChangeSincePrevCycle == cycle >= 2 /\ last_change < cycle - 1

\* C4 (as claimed): two consecutive cycles with no change in between submit
\* records with the same additions and deletions for each repository scanned
\* in both.
C4_AsClaimed ==
  NoChangeSincePrevCycle =>
    \A i \in 1..Len(submitted) :
      submitted[i] # <<>> /\ prev_submitted[i] # <<>> =>
        /\ submitted[i][1].additions = prev_submitted[i][1].additions
        /\ submitted[i][1].deletions = prev_submitted[i][1].deletions

\* C4 (amended): ... and with both scans of the repository on the same local
\* calendar date, the repository is scanned successfully in both cycles or in
\* neither, and the two records have the same additions and deletions.
C4_SameDateSameRecord ==
  NoChangeSincePrevCycle =>
    \A i \in 1..Len(submitted) :
      LocalDate(attempts[i].now, tz) = LocalDate(prev_attempts[i].now, tz) =>
        /\ submitted[i] = <<>> <=> prev_submitted[i] = <<>>
        /\ submitted[i] # <<>> =>
             /\ submitted[i][1].additions = prev_submitted[i][1].additions
             /\ submitted[i][1].deletions = prev_submitted[i][1].deletions

\* C4 witness: the same repository scanned in two cycles at different
\* instants of the same local day, both records with additions 25.
C4_Witness ==
  /\ NoChangeSincePrevCycle /\ Len(submitted) >= 1
  /\ attempts[1].now # prev_attempts[1].now
  /\ LocalDate(attempts[1].now, tz) = LocalDate(prev_attempts[1].now, tz)
  /\ submitted[1] # <<>> /\ prev_submitted[1] # <<>>
  /\ submitted[1][1].additions = 25 /\ prev_submitted[1][1].additions = 25

\* A step that is one iteration of the loop over the paths, and whether the
\* path it read failed (did not open, or get_repo_changes returned an error).
ScanStep == pc = "reconciling" /\ Len(attempts') = Len(attempts) + 1
ScanFailed == ~(results'[Len(results')] # <<>> /\ results'[Len(results')][1].ok)

\* C6: the iteration of a failing repository leaves the table and the sink as
\* they are and submits no record; no step ever removes an entry from the
\* table; and every cycle reads every path again.
C6_FailedRepoKeepsEntry ==
  [][ /\ \A k \in DOMAIN repo_stats : k \in DOMAIN repo_stats'
      /\ ScanStep /\ ScanFailed =>
           /\ repo_stats' = repo_stats
           /\ sink' = sink
           /\ submitted' = Append(submitted, <<>>)
      /\ ScanStep => attempts'[Len(attempts')].path = paths[idx]
      /\ (pc = "reconciling" /\ pc' = "idle") => Len(attempts) = Len(paths)
    ]_vars

\* C6 witness: in the second cycle a repository no longer opens; the table
\* still holds the non-zero entry of the first cycle and nothing is submitted.
C6_Witness ==
  /\ cycle = 2 /\ Latest = 1
  /\ ~attempts[1].repo.open_ok
  /\ submitted[1] = <<>>
  /\ prev_submitted[1] # <<>>
  /\ LatestName \in DOMAIN repo_stats
  /\ repo_stats[LatestName] =
       ExpectedStats(prev_attempts[1].repo, prev_attempts[1].now)
  /\ repo_stats[LatestName].pending_additions = 20

\* C7: in each cycle every path whose stats were computed has exactly one
\* record submitted, with additions and deletions the committed plus pending
\* counters of those stats and is_committed false, also when all are zero;
\* a failing path has none.
C7_OneRecordPerComputedPath ==
  /\ Len(submitted) = Len(results)
  /\ \A i \in 1..Len(results) :
       IF Good(i)
       THEN /\ Len(submitted[i]) = 1
            /\ submitted[i][1].additions =
                 Stats(i).committed_additions + Stats(i).pending_additions
            /\ submitted[i][1].deletions =
                 Stats(i).committed_deletions + Stats(i).pending_deletions
            /\ submitted[i][1].is_committed = FALSE
            /\ submitted[i][1].repo_name = file_name(paths[i])
       ELSE submitted[i] = <<>>

\* C7 witness: stats (0, 0, 0, 0) and a record with additions 0, deletions 0,
\* next to a record with additions 25 = 5 + 20.
C7_Witness ==
  /\ Len(results) = 2
  /\ Good(1) /\ Stats(1) = RepoStats(0, 0, 0, 0)
  /\ submitted[1] # <<>>
  /\ submitted[1][1].additions = 0 /\ submitted[1][1].deletions = 0
  /\ Good(2) /\ Stats(2) = RepoStats(5, 1, 20, 4)
  /\ submitted[2][1].additions = 25 /\ submitted[2][1].deletions = 5

\* The write of iteration i failed.
WriteFailed(i) == Good(i) /\ ~attempts[i].store_ok

\* C8: after a failed write the table holds the stats just computed, the
\* failure is on the error stream, and the cycle goes on to the remaining
\* paths and the aggregate.
C8_FailedWriteKeepsTableUpdate ==
  /\ (Latest > 0 /\ WriteFailed(Latest)) =>
       /\ LatestName \in DOMAIN repo_stats
       /\ repo_stats[LatestName] = Stats(Latest)
  /\ Len(stderr) >= Cardinality({i \in 1..Len(attempts) : WriteFailed(i)})
  /\ CycleRunsThrough

\* C8 witness: a finished cycle whose first write failed: its entry is in the
\* table, the second path was scanned and stored, the aggregate is printed.
C8_Witness ==
  /\ CycleOver /\ cycle = 1 /\ Len(paths) = 2
  /\ WriteFailed(1) /\ Good(2) /\ attempts[2].store_ok
  /\ file_name(paths[1]) # file_name(paths[2])
  /\ repo_stats[file_name(paths[1])] = Stats(1)
  /\ Stats(1).pending_additions = 20
  /\ Len(sink) = 1 /\ Len(stdout) = 1
  /\ stdout[1].total_pending >= 24

\* C9 (as claimed): every iteration whose path does not open or whose
\* get_repo_changes fails writes a line to the error stream.
C9_AsClaimed ==
  [][ScanStep /\ ScanFailed => Len(stderr') > Len(stderr)]_vars

\* C10: after a successful scan the entry of the repository is exactly the
\* stats of this scan, counted from zero, whatever entry was there before.
C10_EntryFullyReplaced ==
  (Latest > 0 /\ Good(Latest)) =>
    /\ LatestName \in DOMAIN repo_stats
    /\ repo_stats[LatestName] =
         ExpectedStats(attempts[Latest].repo, attempts[Latest].now)

\* C10 witness: the entry of the cycle before was (5, 1, 20, 4); the scan of
\* this cycle computes other non-zero counters and the entry holds them.
C10_Witness ==
  /\ cycle = 2 /\ Latest = 1 /\ Good(1)
  /\ prev_submitted[1] # <<>>
  /\ ExpectedStats(prev_attempts[1].repo, prev_attempts[1].now) = RepoStats(5, 1, 20, 4)
  /\ repo_stats[LatestName] = RepoStats(0, 0, 20, 4)

\* The loop of watch_repositories has been entered.
InLoop == pc \in {"idle", "reconciling"}

\* C11: the process terminates only from setup, before anything of the loop
\* has run; once the loop is entered no step leaves it, whether a path fails
\* to open, its stats fail, the write fails or rx.recv() returns an error.
C11_OnlySetupTerminates ==
  [][ /\ InLoop => pc' \in {"idle", "reconciling"}
      /\ pc' = "exited" =>
           /\ pc \in {"setup", "exited"}
           /\ cycle = 0 /\ stderr = <<>> /\ stdout = <<>> /\ sink = <<>> ]_vars

\* C11 witness: the loop is waiting in rx.recv() after a receive error, a path
\* that did not open or whose stats failed, and a failed write.
C11_Witness ==
  /\ pc = "idle" /\ cycle = 2
  /\ WatchErrors > 0
  /\ \E i \in 1..Len(results) : ~Good(i)
  /\ \E i \in 1..Len(stderr) : stderr[i] = "Error storing change"

\* The walk items reached before the walk ends that are dated today, by the
\* configured author and without a parent.
RootsReached(walk, t) ==
  {j \in 1..(WalkEnd(walk, t) - 1) :
     DatedToday(walk[j], t) /\ ByAuthor(walk[j]) /\ walk[j].parent = "none"}

\* C12: a commit of today by the tracked author that has no parent adds
\* nothing to the committed counters and raises no error: the scan of a
\* repository that is otherwise readable still returns Ok, and its committed
\* counters are the sums over the commits with a parent, those after the root
\* commit included.
C12_RootCommitAddsNothing ==
  \A i \in 1..Len(results) :
    LET repo == attempts[i].repo
        t == attempts[i].now
    IN RootsReached(repo.walk, t) # {} =>
         /\ ExpectedOk(repo, t) => Good(i)
         /\ Good(i) =>
              /\ Stats(i).committed_additions =
                   SumDiffs(repo.walk, Counted(repo.walk, t), "insertions")
              /\ Stats(i).committed_deletions =
                   SumDiffs(repo.walk, Counted(repo.walk, t), "deletions")

\* C12 witness: the walk is a root commit (9, 9) of today by the author
\* followed by a commit (5, 1) of today with a parent; the scan returns Ok
\* with committed counters (5, 1).
C12_Witness ==
  /\ Len(results) = 1 /\ Good(1)
  /\ Len(attempts[1].repo.walk) = 2
  /\ RootsReached(attempts[1].repo.walk, attempts[1].now) = {1}
  /\ attempts[1].repo.walk[1].insertions = 9
  /\ Counted(attempts[1].repo.walk, attempts[1].now) = {2}
  /\ Stats(1).committed_additions = 5 /\ Stats(1).committed_deletions = 1

\* The first walk item that is not dated today, Len(walk) + 1 if there is none.
FirstOld(walk, t) ==
  LET olds == {j \in 1..Len(walk) : ~DatedToday(walk[j], t)}
  IN IF olds = {} THEN Len(walk) + 1
     ELSE CHOOSE j \in olds : \A k \in olds : j <= k

\* The commits of today with a readable parent, all of them reached when the
\* scan returns Ok.
TodayWithParent(walk, t) ==
  {j \in 1..(FirstOld(walk, t) - 1) : walk[j].parent = "ok"}

\* C13 (as claimed): a commit of today with a parent contributes its diff
\* exactly when the name recorded in the commit is the configured author,
\* character for character.
C13_AsClaimed ==
  \A i \in 1..Len(results) :
    LET walk == attempts[i].repo.walk
        t == attempts[i].now
        same == {j \in TodayWithParent(walk, t) : walk[j].author_name = <<author>>}
    IN Good(i) =>
         /\ Stats(i).committed_additions = SumDiffs(walk, same, "insertions")
         /\ Stats(i).committed_deletions = SumDiffs(walk, same, "deletions")

\* The author name as line 184-185 reads it: a name that is not UTF-8 reads
\* as the empty string.
NameRead(c) == IF c.author_name = <<>> THEN "" ELSE c.author_name[1]

\* C13: a commit of today with a parent contributes its diff exactly when its
\* author name, read with a name that is not UTF-8 taken as the empty string,
\* is the configured author character for character: "jane doe" and "Jane"
\* contribute nothing for the author "Jane Doe".
C13_ExactNameAsRead ==
  \A i \in 1..Len(results) :
    LET walk == attempts[i].repo.walk
        t == attempts[i].now
        same == {j \in TodayWithParent(walk, t) : NameRead(walk[j]) = author}
    IN Good(i) =>
         /\ Stats(i).committed_additions = SumDiffs(walk, same, "insertions")
         /\ Stats(i).committed_deletions = SumDiffs(walk, same, "deletions")

\* C13 witness: the author is "Jane Doe" and the walk holds commits of today
\* with parents by "Jane Doe" (5, 1), "jane doe" (4, 4) and "Jane" (3, 3): the
\* committed counters are (5, 1).
C13_Witness ==
  /\ author = "Jane Doe"
  /\ Len(results) = 1 /\ Good(1)
  /\ LET walk == attempts[1].repo.walk
     IN /\ TodayWithParent(walk, attempts[1].now) = {1, 2, 3}
        /\ {walk[j].author_name : j \in 1..3} =
             {SomeName("Jane Doe"), SomeName("jane doe"), SomeName("Jane")}
  /\ Stats(1).committed_additions = 5 /\ Stats(1).committed_deletions = 1

\* The sum over the entries under keys of committed-LoC (additions plus
\* deletions of the commits) or of pending-LoC.
RECURSIVE SumLoc(_, _, _)
SumLoc(table, keys, which) ==
  IF keys = {} THEN 0
  ELSE LET k == CHOOSE x \in keys : TRUE
       IN (IF which = "committed"
           THEN table[k].committed_additions + table[k].committed_deletions
           ELSE table[k].pending_additions + table[k].pending_deletions)
          + SumLoc(table, keys \ {k}, which)

\* C14: the totals printed at the end of a cycle are the sums of committed-LoC
\* and of pending-LoC over every entry the table holds, the entries of
\* repositories that failed in this cycle included; one line is printed per
\* entry.
C14_TotalsSumEveryEntry ==
  CycleOver =>
    /\ Len(stdout) = cycle
    /\ LET printed == stdout[cycle]
       IN /\ DOMAIN printed.lines = DOMAIN repo_stats
          /\ printed.total_committed = SumLoc(repo_stats, DOMAIN repo_stats, "committed")
          /\ printed.total_pending = SumLoc(repo_stats, DOMAIN repo_stats, "pending")
          /\ \A k \in DOMAIN repo_stats :
               printed.lines[k] = <<SumLoc(repo_stats, {k}, "committed"),
                                    SumLoc(repo_stats, {k}, "pending")>>

\* C14 witness: in the second cycle the first repository fails and keeps its
\* entry (5, 1, 20, 4) of the first cycle, the second is scanned with the
\* same counters: the totals printed are 12 and 48.
C14_Witness ==
  /\ CycleOver /\ cycle = 2 /\ Len(paths) = 2
  /\ ~Good(1) /\ Good(2)
  /\ file_name(paths[1]) # file_name(paths[2])
  /\ file_name(paths[1]) \in DOMAIN repo_stats
  /\ repo_stats[file_name(paths[1])] = RepoStats(5, 1, 20, 4)
  /\ Stats(2) = RepoStats(5, 1, 20, 4)
  /\ stdout[2].total_committed = 12 /\ stdout[2].total_pending = 48

\* C15: the cycle is one sequence of steps.  A scan step reads the one path
\* at the position after those already finished and ends with its record
\* written or its write failure logged; the aggregate is printed only when
\* every path has had its step; a notification is received only when every
\* cycle before has been printed, so a cycle is running exactly when one
\* aggregate is outstanding.
C15_CyclesAreSequential ==
  [][ /\ pc = "reconciling" <=> Len(stdout) = cycle - 1
      /\ pc = "idle" => Len(stdout) = cycle
      /\ pc = "reconciling" =>
           /\ idx = Len(attempts) + 1
           /\ Len(results) = Len(attempts) /\ Len(submitted) = Len(attempts)
      /\ ScanStep =>
           /\ attempts'[Len(attempts')].path = paths[Len(attempts) + 1]
           /\ stdout' = stdout /\ cycle' = cycle
           /\ submitted'[Len(submitted')] # <<>> =>
                (sink' = Append(sink, submitted'[Len(submitted')][1]) /\ stderr' = stderr)
                \/ (sink' = sink /\ stderr' = Append(stderr, "Error storing change"))
      /\ stdout' # stdout =>
           /\ pc = "reconciling" /\ pc' = "idle"
           /\ Len(attempts) = Len(paths) /\ attempts' = attempts
      /\ cycle' # cycle =>
           /\ pc = "idle" /\ pc' = "reconciling"
           /\ Len(stdout) = cycle /\ attempts' = <<>> ]_vars

\* C15 witness: a second notification is queued while the first cycle has
\* scanned and submitted one of its two paths; nothing of the second cycle
\* has started and the aggregate is not printed yet.
C15_Witness ==
  /\ pc = "reconciling" /\ cycle = 1 /\ chan = 1
  /\ Len(paths) = 2 /\ Len(attempts) = 1
  /\ submitted[1] # <<>> /\ Len(sink) = 1
  /\ stdout = <<>>

\* The paths read so far by a cycle, in the order read.
PathsRead(att) == [i \in 1..Len(att) |-> att[i].path]

\* C16: notifications leave the queue one at a time, each by a receive that
\* starts one cycle; a cycle reads every tracked path once, in the order
\* configured, before its aggregate; steps of a running cycle take nothing
\* from the queue, and every notification queued is received in the end, so
\* that it gets a cycle of its own.
C16_OneCyclePerNotification ==
  /\ [][ /\ chan' # chan => chan' = chan + 1 \/ chan' = chan - 1
         /\ chan' = chan + 1 => cycle' = cycle /\ pc' = pc /\ attempts' = attempts
         /\ chan' = chan - 1 => pc = "idle" /\ cycle' = cycle + 1
         /\ cycle' # cycle => chan' = chan - 1 /\ cycle' = cycle + 1
         /\ pc = "reconciling" => chan' >= chan
         /\ stdout' # stdout => PathsRead(attempts) = paths ]_vars
  /\ \A n \in 0..(MaxCycles - 1) : (chan > 0 /\ cycle = n) ~> (cycle = n + 1)

\* C16 witness: the second of two notifications was queued before the first
\* cycle had ended; the second cycle has read both paths in order, as the
\* first did.
C16_Witness ==
  /\ pc = "reconciling" /\ cycle = 2 /\ chan = 0
  /\ Len(paths) = 2
  /\ PathsRead(attempts) = paths /\ PathsRead(prev_attempts) = paths
  /\ Len(stdout) = 1

\* C17: every cycle that starts is followed by its aggregate and the loop
\* waiting in rx.recv() again, whichever paths fail and whichever writes fail.
C17_CycleEndsInIdle ==
  \A n \in 1..MaxCycles :
    (pc = "reconciling" /\ cycle = n) ~> (pc = "idle" /\ cycle = n /\ Len(stdout) = n)

\* C17 witness: the second cycle is over and printed although its first path
\* failed and the write of its second path failed.
C17_Witness ==
  /\ pc = "idle" /\ cycle = 2 /\ Len(stdout) = 2
  /\ Len(results) = 2
  /\ ~Good(1) /\ WriteFailed(2)

\* The tracked paths are pairwise different, and every one of them was
\* scanned with an Ok in the cycle that has just ended.
DistinctPaths == Cardinality(Tracked) = Len(paths)
AllScanned == CycleOver /\ \A i \in 1..Len(paths) : Good(i)

\* C18 (as claimed): after a cycle that scanned every one of the distinct
\* tracked paths with success, the table has one entry per tracked path, the
\* entry of each path is the stats of that path, and the totals printed count
\* every tracked repository once.
C18_AsClaimed ==
  (DistinctPaths /\ AllScanned) =>
    /\ Cardinality(DOMAIN repo_stats) = Len(paths)
    /\ \A i \in 1..Len(paths) :
         /\ file_name(paths[i]) \in DOMAIN repo_stats
         /\ repo_stats[file_name(paths[i])] = Stats(i)
    /\ stdout[cycle].total_committed =
         SumLoc([i \in 1..Len(paths) |-> Stats(i)], 1..Len(paths), "committed")
    /\ stdout[cycle].total_pending =
         SumLoc([i \in 1..Len(paths) |-> Stats(i)], 1..Len(paths), "pending")

\* The four counters of a RepoStats are not negative.
NonNegative(stats) ==
  /\ stats.committed_additions >= 0 /\ stats.committed_deletions >= 0
  /\ stats.pending_additions >= 0 /\ stats.pending_deletions >= 0

\* C19 (as claimed): no counter of a RepoStats returned or stored is negative,
\* nor are the additions and deletions of a record submitted.
C19_AsClaimed ==
  /\ \A i \in 1..Len(results) : results[i] # <<>> => NonNegative(results[i][1].stats)
  /\ \A k \in DOMAIN repo_stats : NonNegative(repo_stats[k])
  /\ \A i \in 1..Len(submitted) :
       submitted[i] # <<>> =>
         submitted[i][1].additions >= 0 /\ submitted[i][1].deletions >= 0
  /\ \A i \in 1..Len(sink) : sink[i].additions >= 0 /\ sink[i].deletions >= 0

====
